---- MODULE Spec2Model ----
(***************************************************************************)
(* A model of rag-llm-frontend/app.py: the streaming chat client           *)
(* (stream_chat), the turn controller (respond) and the Gradio components  *)
(* they read and write.                                                    *)
(*                                                                         *)
(* Python strings are sequences of symbols, so that `buffer += token` is   *)
(* sequence concatenation.  JSON values are tagged records.  The two       *)
(* generators are modelled by their suspension points (source line         *)
(* numbers): rpc for respond, spc for stream_chat.                         *)
(***************************************************************************)
EXTENDS Integers, Sequences, FiniteSets, TLC

\* Longest response body (number of lines) the backend sends.
MaxLines == 3

-----------------------------------------------------------------------------
(* JSON values                                                             *)

JNull == [k |-> "null"]
JNum(i) == [k |-> "num", n |-> i]
JStr(str) == [k |-> "str", s |-> str]
JArr(elems) == [k |-> "arr", xs |-> elems]
\* an object is the sequence of its members, [key, val] records
JObj(members) == [k |-> "obj", o |-> members]
KV(key, v) == [key |-> key, val |-> v]

\* Python truthiness of a decoded JSON value (`if token:`)
Truthy(v) ==
    CASE v.k = "null" -> FALSE
      [] v.k = "num"  -> v.n # 0
      [] v.k = "str"  -> v.s # << >>
      [] v.k = "arr"  -> v.xs # << >>
      [] v.k = "obj"  -> v.o # << >>

\* The result of evaluating a Python expression: a value or an exception.
Ok(v) == [exc |-> "none", val |-> v]
Raise(e) == [exc |-> e, val |-> JNull]

-----------------------------------------------------------------------------
(* Response lines.  A line is its first six characters and the rest; the   *)
(* rest is either text that is not JSON or the serialisation of a value.   *)

DataPrefix == "data: "
Raw(text) == [k |-> "raw", t |-> text]
Json(v) == [k |-> "json", v |-> v]
Line(prefix, rest) == [pre |-> prefix, body |-> rest]

Delta(members) == JObj(<<KV("choices", JArr(<<JObj(<<KV("delta", JObj(members))>>)>>))>>)

L_comment     == Line(": ping", Raw(""))
L_done        == Line(DataPrefix, Raw("[DONE]"))
L_badjson     == Line(DataPrefix, Raw("{\"choices\": [{\"del"))
L_tok_a       == Line(DataPrefix, Json(Delta(<<KV("content", JStr(<<"a">>))>>)))
L_tok_b       == Line(DataPrefix, Json(Delta(<<KV("content", JStr(<<"b">>))>>)))
L_tok_empty   == Line(DataPrefix, Json(Delta(<<KV("content", JStr(<< >>))>>)))
L_tok_num     == Line(DataPrefix, Json(Delta(<<KV("content", JNum(5))>>)))
L_role_only   == Line(DataPrefix, Json(Delta(<<KV("role", JStr(<<"assistant">>))>>)))
L_no_choices  == Line(DataPrefix, Json(JObj(<<KV("id", JStr(<<"x">>))>>)))
L_choices_empty == Line(DataPrefix, Json(JObj(<<KV("choices", JArr(<< >>))>>)))
L_choices_dict  == Line(DataPrefix, Json(JObj(<<KV("choices", JObj(<< >>))>>)))
L_choices_null  == Line(DataPrefix, Json(JObj(<<KV("choices", JNull)>>)))
L_not_object    == Line(DataPrefix, Json(JArr(<<JNum(1)>>)))
L_choice_not_obj == Line(DataPrefix, Json(JObj(<<KV("choices", JArr(<<JNum(1)>>))>>)))
L_delta_null  == Line(DataPrefix,
                      Json(JObj(<<KV("choices", JArr(<<JObj(<<KV("delta", JNull)>>)>>))>>)))
L_delta_str   == Line(DataPrefix,
                      Json(JObj(<<KV("choices", JArr(<<JObj(<<KV("delta", JStr(<<"a">>))>>)>>))>>)))

Lines == { L_comment, L_done, L_badjson, L_tok_a, L_tok_b, L_tok_empty,
           L_tok_num, L_role_only, L_no_choices, L_choices_empty,
           L_choices_dict, L_choices_null, L_not_object, L_choice_not_obj,
           L_delta_null, L_delta_str }

\* every response body of at most MaxLines lines
Bodies == UNION { [1..n -> Lines] : n \in 0..MaxLines }

-----------------------------------------------------------------------------
(* The Python expressions of stream_chat's loop body                       *)

\* raw_chunk.startswith("data: ")
startswith_data(line) == line.pre = DataPrefix

\* str.strip() of the text after the prefix
strip(text) ==
    IF text = " [DONE] " THEN "[DONE]" ELSE text

\* the sentinel compared without its brackets
is_done_Unbracketed(body) == body.k = "raw" /\ strip(body.t) = "DONE"

\* data_str.strip() == "[DONE]"; the serialisation of a JSON value never
\* reads [DONE]
is_done(body) == body.k = "raw" /\ strip(body.t) = "[DONE]"

\* json.loads(data_str)
json_loads(body) ==
    IF body.k = "json" THEN Ok(body.v) ELSE Raise("JSONDecodeError")

HasKey(members, key) == \E i \in 1..Len(members) : members[i].key = key
Lookup(members, key) ==
    members[CHOOSE i \in 1..Len(members) : members[i].key = key].val

\* v.get(key, default): only a dict has .get
dict_get(v, key, default) ==
    IF v.k # "obj" THEN Raise("AttributeError")
    ELSE IF HasKey(v.o, key) THEN Ok(Lookup(v.o, key))
    ELSE Ok(default)

\* v[0]
index0(v) ==
    CASE v.k = "arr" -> IF v.xs = << >> THEN Raise("IndexError") ELSE Ok(v.xs[1])
      [] v.k = "str" -> IF v.s = << >> THEN Raise("IndexError") ELSE Ok(JStr(<<v.s[1]>>))
      [] v.k = "obj" -> Raise("KeyError")
      [] OTHER       -> Raise("TypeError")

\* lines 107-109: chunk.get("choices", [{}])[0].get("delta", {}).get("content")
delta_content(body) ==
    LET chunk == json_loads(body) IN
    IF chunk.exc # "none" THEN chunk ELSE
    LET choices == dict_get(chunk.val, "choices", JArr(<<JObj(<< >>)>>)) IN
    IF choices.exc # "none" THEN choices ELSE
    LET first == index0(choices.val) IN
    IF first.exc # "none" THEN first ELSE
    LET delta == dict_get(first.val, "delta", JObj(<< >>)) IN
    IF delta.exc # "none" THEN delta ELSE
    dict_get(delta.val, "content", JNull)

\* the inner handler without json.JSONDecodeError
CaughtInner_NoDecodeError == {"IndexError", "KeyError"}

\* line 112: the exceptions the inner handler swallows
CaughtInner == {"JSONDecodeError", "IndexError", "KeyError"}

\* One iteration of the for loop (lines 99-113) on one line: what the
\* iteration ends with.
\*   continue: next line; break: leave the loop; yield: hand tok to the
\*   consumer; raise: exc escapes the inner try
HandleLine(line) ==
    IF ~startswith_data(line) THEN [act |-> "continue", tok |-> JNull, exc |-> "none"]
    ELSE IF is_done(line.body) THEN [act |-> "break", tok |-> JNull, exc |-> "none"]
    ELSE LET token == delta_content(line.body) IN
         IF token.exc = "none"
         THEN IF Truthy(token.val)
              THEN [act |-> "yield", tok |-> token.val, exc |-> "none"]
              ELSE [act |-> "continue", tok |-> JNull, exc |-> "none"]
         ELSE IF token.exc \in CaughtInner
              THEN [act |-> "continue", tok |-> JNull, exc |-> "none"]
              ELSE [act |-> "raise", tok |-> JNull, exc |-> token.exc]


-----------------------------------------------------------------------------
(* Messages, conversations and the texts the program displays              *)

None == "None"
Msg(role, content) == [role |-> role, content |-> content]

WarnText == <<"Error: Please select a model from the dropdown menu first.">>
GenericErrorText == <<"Error: An unexpected error occurred. Please check the logs.">>
HttpErrorText(code) ==
    <<"Error: HTTP error occurred: ", ToString(code), ". Please check the logs for details.">>

\* the check written as `model_choice == ""`: None passes it
NoModel_EmptyOnly(model) == model = ""

\* `not model_choice`
NoModel(model) == model \in {None, ""}

\* line 84: chat_history + [{"role": "user", "content": question}]
RequestMessages(history, question) == history \o <<Msg("user", question)>>

\* the turn opened without the assistant placeholder
OpenTurn_UserOnly(history, question) == history \o <<Msg("user", question)>>

\* lines 148-149: the two appends that open a turn
OpenTurn(history, question) ==
    history \o <<Msg("user", question), Msg("assistant", << >>)>>

\* the content written to the first message instead of the last
SetLastContent_First(history, content) ==
    [history EXCEPT ![1].content = content]

\* line 155: chat_history[-1]["content"] = buffer
SetLastContent(history, content) ==
    [history EXCEPT ![Len(history)].content = content]

\* the inputs of a run
Questions == { <<"Hi">> }
Histories == { << >>,
               <<Msg("user", <<"q0">>), Msg("assistant", <<"a">>)>> }
ModelChoices == { None, "model-a" }
ErrorStatuses == { 404, 500 }

-----------------------------------------------------------------------------
(* Model discovery: fetch_models and refresh_dropdown                      *)

\* Longest `data` list of a discovery response.
MaxModels == 2

\* a model identifier as the dropdown holds it
IdText(v) == IF v.s = << >> THEN "" ELSE v.s[1]

ModelObj(id) == JObj(<<KV("id", JStr(<<id>>)), KV("object", JStr(<<"model">>))>>)
NoIdObj == JObj(<<KV("object", JStr(<<"model">>))>>)

\* the entries a `data` list is made of: objects with an id, an object
\* without one, and entries that are no objects
ObjectEntries == { ModelObj("model-a"), ModelObj("model-b"), NoIdObj }
Entries == ObjectEntries \cup { JNum(1), JStr(<<"id">>) }
DataLists == UNION { [1..n -> Entries] : n \in 0..MaxModels }

\* what the backend answers to GET /openai/v1/models
Response(network, code, content) == [net |-> network, status |-> code, body |-> content]
NoResponse == Response("none", 0, Raw(""))
ModelsBody(v) == Json(JObj(<<KV("object", JStr(<<"list">>)), KV("data", v)>>))
Responses ==
    { Response("ConnectError", 0, Raw("")), Response("ReadTimeout", 0, Raw("")) }
    \cup { Response("ok", c, Raw("Internal Server Error")) : c \in ErrorStatuses }
    \cup { Response("ok", 200, Raw("<html>")) }
    \cup { Response("ok", 200, Json(v)) :
             v \in { JArr(<< >>), JNull, JObj(<< >>) } }
    \cup { Response("ok", 200, ModelsBody(v)) :
             v \in { JNull, JNum(5), JStr(<<"x">>), JObj(<<KV("id", JNum(1))>>) } }
    \cup { Response("ok", 200, ModelsBody(JArr(d))) : d \in DataLists }

\* lines 41-47: the try block; the decoded body, or the exception caught
get_json(r) ==
    IF r.net # "ok" THEN Raise(r.net)
    ELSE IF r.status # 200 THEN Raise("HTTPStatusError")
    ELSE json_loads(r.body)

\* `for model in v`: the elements Python iterates over
iterate(v) ==
    CASE v.k = "arr" -> [exc |-> "none", xs |-> v.xs]
      [] v.k = "str" -> [exc |-> "none", xs |-> [i \in 1..Len(v.s) |-> JStr(<<v.s[i]>>)]]
      [] v.k = "obj" -> [exc |-> "none", xs |-> [i \in 1..Len(v.o) |-> JStr(<<v.o[i].key>>)]]
      [] OTHER       -> [exc |-> "TypeError", xs |-> << >>]

\* `"id" in model`: a key test on a dict, a substring test on a str, a
\* membership test on a list
has_id(model) ==
    CASE model.k = "obj" -> [exc |-> "none", b |-> HasKey(model.o, "id")]
      [] model.k = "str" -> [exc |-> "none", b |-> model.s = <<"id">>]
      [] model.k = "arr" -> [exc |-> "none", b |-> \E i \in 1..Len(model.xs) : model.xs[i] = JStr(<<"id">>)]
      [] OTHER           -> [exc |-> "TypeError", b |-> FALSE]

\* model["id"]
get_id(model) ==
    IF model.k = "obj" THEN Ok(Lookup(model.o, "id")) ELSE Raise("TypeError")

\* the comprehension with its result reversed
comprehension_Reversed(xs) ==
    LET kept == SelectSeq(xs, LAMBDA e : has_id(e).b)
        n == Len(kept) IN
    IF \E i \in 1..Len(xs) : has_id(xs[i]).exc # "none"
    THEN [exc |-> "TypeError", ids |-> << >>]
    ELSE IF \E i \in 1..n : get_id(kept[i]).exc # "none"
    THEN [exc |-> "TypeError", ids |-> << >>]
    ELSE [exc |-> "none", ids |-> [i \in 1..n |-> get_id(kept[n + 1 - i]).val]]

\* line 49: [model["id"] for model in ... if "id" in model]
comprehension(xs) ==
    LET kept == SelectSeq(xs, LAMBDA e : has_id(e).b) IN
    IF \E i \in 1..Len(xs) : has_id(xs[i]).exc # "none"
    THEN [exc |-> "TypeError", ids |-> << >>]
    ELSE IF \E i \in 1..Len(kept) : get_id(kept[i]).exc # "none"
    THEN [exc |-> "TypeError", ids |-> << >>]
    ELSE [exc |-> "none", ids |-> [i \in 1..Len(kept) |-> get_id(kept[i]).val]]

Returned(ids, dflt) == [exc |-> "none", choices |-> ids, default |-> dflt]
Raised(e) == [exc |-> e, choices |-> << >>, default |-> JNull]

\* fetch_models (lines 41-53); default JNull is Python's None
fetch_models(r) ==
    LET data == get_json(r) IN
    IF data.exc # "none" THEN Returned(<< >>, JNull) ELSE
    LET field == dict_get(data.val, "data", JArr(<< >>)) IN
    IF field.exc # "none" THEN Raised(field.exc) ELSE
    LET it == iterate(field.val) IN
    IF it.exc # "none" THEN Raised(it.exc) ELSE
    LET c == comprehension(it.xs) IN
    IF c.exc # "none" THEN Raised(c.exc)
    ELSE Returned(c.ids, IF c.ids # << >> THEN c.ids[1] ELSE JNull)

Unreachable == "backend unreachable"

\* refresh_dropdown (lines 171-176): the gr.update it returns
refresh_dropdown(f) ==
    IF f.choices = << >>
    THEN [choices |-> <<Unreachable>>, value |-> None, interactive |-> FALSE]
    ELSE [choices |-> [i \in 1..Len(f.choices) |-> IdText(f.choices[i])],
          value |-> IdText(f.default), interactive |-> TRUE]

-----------------------------------------------------------------------------
VARIABLES
    chatbot,       \* value of the Chatbot component (the displayed conversation)
    msg,           \* value of the Textbox
    model_sel,     \* value of the Dropdown, None when nothing is selected
    rpc,           \* respond: idle, l150 / l156 (suspended at that yield),
                   \*   next (inside next(bot_stream) or the loop body), done, raised
    rexc,          \* the exception respond raised to Gradio
    message,       \* respond's arguments and locals
    model_choice,
    chat_history,  \* the list object respond and stream_chat both hold
    buffer,
    spc,           \* stream_chat: none, created (body not started), l81 / l111 /
                   \*   l120 (suspended at that yield), l98 (about to read a
                   \*   line), returned, raised, closed
    exc,           \* the exception that left stream_chat's try block
    status,        \* status code of the response, 0 before there is one
    lines,         \* the lines of the response body
    pos,           \* number of lines iter_lines has handed out
    conn,          \* the HTTP connection: none, open, closed
    token,         \* the item stream_chat yielded last
    posted,        \* the `messages` of every chat-completions POST issued
    items,         \* every item stream_chat yielded
    yields,        \* every (chat_history, "") respond yielded
    dd_choices,    \* choices of the Dropdown
    dd_interactive,\* whether the Dropdown is enabled
    fresp,         \* the answer to the last GET of the model list
    fetched,       \* what fetch_models returned last
    fexc           \* the exception the last refresh_dropdown raised to Gradio

vars == <<chatbot, msg, model_sel, rpc, rexc, message, model_choice,
          chat_history, buffer, spc, exc, status, lines, pos, conn, token,
          posted, items, yields, dd_choices, dd_interactive, fresp, fetched, fexc>>

\* the dropdown apart from its value, and the last discovery
front == <<dd_choices, dd_interactive, fresp, fetched, fexc>>

ui == <<chatbot, msg>>
args == <<message, model_choice>>
resp == <<status, lines, pos>>

\* the page after the refresh of demo.load got answer r
Loaded(r) ==
    LET f == fetch_models(r)
        u == refresh_dropdown(f) IN
    /\ fresp = r /\ fexc = "none"
    /\ fetched = [choices |-> f.choices, default |-> f.default]
    /\ dd_choices = u.choices /\ dd_interactive = u.interactive
    /\ model_sel = u.value

LoadResponses ==
    { Response("ConnectError", 0, Raw("")),
      Response("ok", 200, ModelsBody(JArr(<<ModelObj("model-a")>>))) }

Init ==
    /\ chatbot \in Histories
    /\ msg \in Questions
    /\ model_sel \in ModelChoices
    /\ \E r \in LoadResponses : Loaded(r)
    /\ rpc = "idle" /\ rexc = "none"
    /\ message = << >> /\ model_choice = None
    /\ chat_history = << >> /\ buffer = << >>
    /\ spc = "none" /\ exc = "none"
    /\ status = 0 /\ lines = << >> /\ pos = 0
    /\ conn = "none"
    /\ token = JNull
    /\ posted = << >> /\ items = << >> /\ yields = << >>

\* respond yields (chat_history, ""): Gradio writes the pair to the outputs
\* [chatbot, msg]
YieldToUI(history) ==
    /\ yields' = Append(yields, history)
    /\ chatbot' = history
    /\ msg' = << >>

\* msg.submit / send_btn.click: respond runs to its first yield (146-150)
Submit ==
    /\ rpc = "idle"
    /\ message' = msg /\ model_choice' = model_sel
    /\ spc' = "created"
    /\ chat_history' = OpenTurn(chatbot, msg)
    /\ YieldToUI(chat_history')
    /\ rpc' = "l150"
    /\ UNCHANGED front
    /\ UNCHANGED <<model_sel, rexc, buffer, exc, resp, conn, token, posted, items>>

\* stream_chat yields an item to respond's for loop
YieldItem(item, at) ==
    /\ token' = item
    /\ items' = Append(items, item)
    /\ spc' = at

\* respond is resumed at line 150 and asks bot_stream for its first item:
\* stream_chat's body starts.  No model: lines 80-81.
StartNoModel ==
    /\ rpc = "l150" /\ spc = "created"
    /\ NoModel(model_choice)
    /\ buffer' = << >>
    /\ YieldItem(JStr(WarnText), "l81")
    /\ rpc' = "next"
    /\ UNCHANGED front
    /\ UNCHANGED <<ui, model_sel, rexc, args, chat_history, exc, resp, conn, posted, yields>>

\* lines 84-96: the request is built and sent
SendRequest ==
    posted' = Append(posted, RequestMessages(chat_history, message))

\* a connection failure answered with a second attempt before giving up
PostConnectFail_Retry ==
    /\ rpc = "l150" /\ spc = "created"
    /\ ~NoModel(model_choice)
    /\ buffer' = << >>
    /\ posted' = posted \o << RequestMessages(chat_history, message),
                              RequestMessages(chat_history, message) >>
    /\ exc' = "ConnectError"
    /\ YieldItem(JStr(GenericErrorText), "l120")
    /\ rpc' = "next"
    /\ UNCHANGED front
    /\ UNCHANGED <<ui, model_sel, rexc, args, chat_history, resp, conn, yields>>

\* the connection cannot be established: line 94 raises, line 118 catches
PostConnectFail ==
    /\ rpc = "l150" /\ spc = "created"
    /\ ~NoModel(model_choice)
    /\ buffer' = << >>
    /\ SendRequest
    /\ exc' = "ConnectError"
    /\ YieldItem(JStr(GenericErrorText), "l120")
    /\ rpc' = "next"
    /\ UNCHANGED front
    /\ UNCHANGED <<ui, model_sel, rexc, args, chat_history, resp, conn, yields>>

\* an error status: raise_for_status raises HTTPStatusError (line 97), the
\* with block closes the response, and the handler of line 114 runs.  The
\* response of httpx.stream was never read, so `e.response.text` in line 116
\* raises httpx.ResponseNotRead inside the handler: line 117 is not reached
\* and the exception leaves the generator.
PostHttpError ==
    /\ rpc = "l150" /\ spc = "created"
    /\ ~NoModel(model_choice)
    /\ buffer' = << >>
    /\ SendRequest
    /\ \E code \in ErrorStatuses : status' = code
    /\ conn' = "closed"
    /\ exc' = "ResponseNotRead"
    /\ spc' = "raised"
    /\ rpc' = "raised" /\ rexc' = "ResponseNotRead"
    /\ UNCHANGED front
    /\ UNCHANGED <<ui, model_sel, args, chat_history, lines, pos, token, items, yields>>

\* a 2xx response: the for loop of line 98 starts on its body
PostOk ==
    /\ rpc = "l150" /\ spc = "created"
    /\ ~NoModel(model_choice)
    /\ buffer' = << >>
    /\ SendRequest
    /\ status' = 200
    /\ lines' \in Bodies
    /\ pos' = 0
    /\ conn' = "open"
    /\ spc' = "l98"
    /\ rpc' = "next"
    /\ UNCHANGED front
    /\ UNCHANGED <<ui, model_sel, rexc, args, chat_history, exc, token, items, yields>>

Reading == rpc = "next" /\ spc = "l98"
NextLine == lines[pos + 1]

\* lines 99-100, 110, 112-113: the line yields nothing, the loop goes on
LineSkipped ==
    /\ Reading /\ pos < Len(lines)
    /\ HandleLine(NextLine).act = "continue"
    /\ pos' = pos + 1
    /\ UNCHANGED front
    /\ UNCHANGED <<ui, model_sel, rpc, rexc, args, chat_history, buffer, spc, exc,
                   status, lines, conn, token, posted, items, yields>>

\* lines 103-104: break leaves the loop and the with block; the generator
\* returns and respond's for loop ends
LineDone ==
    /\ Reading /\ pos < Len(lines)
    /\ HandleLine(NextLine).act = "break"
    /\ pos' = pos + 1
    /\ conn' = "closed"
    /\ spc' = "returned"
    /\ rpc' = "done"
    /\ UNCHANGED front
    /\ UNCHANGED <<ui, model_sel, rexc, args, chat_history, buffer, exc,
                   status, lines, token, posted, items, yields>>

\* line 111
LineToken ==
    /\ Reading /\ pos < Len(lines)
    /\ HandleLine(NextLine).act = "yield"
    /\ pos' = pos + 1
    /\ YieldItem(HandleLine(NextLine).tok, "l111")
    /\ UNCHANGED front
    /\ UNCHANGED <<ui, model_sel, rpc, rexc, args, chat_history, buffer, exc,
                   status, lines, conn, posted, yields>>

\* an exception the inner handler does not list leaves the loop and the with
\* block; line 118 catches it
LineRaises ==
    /\ Reading /\ pos < Len(lines)
    /\ HandleLine(NextLine).act = "raise"
    /\ pos' = pos + 1
    /\ exc' = HandleLine(NextLine).exc
    /\ conn' = "closed"
    /\ YieldItem(JStr(GenericErrorText), "l120")
    /\ UNCHANGED front
    /\ UNCHANGED <<ui, model_sel, rpc, rexc, args, chat_history, buffer,
                   status, lines, posted, yields>>

\* iter_lines is exhausted: the loop and the with block end, the generator
\* returns
EndOfBody ==
    /\ Reading /\ pos = Len(lines)
    /\ conn' = "closed"
    /\ spc' = "returned"
    /\ rpc' = "done"
    /\ UNCHANGED front
    /\ UNCHANGED <<ui, model_sel, rexc, args, chat_history, buffer, exc,
                   resp, token, posted, items, yields>>

\* the connection drops while iter_lines waits for the next line
DropConnection ==
    /\ Reading
    /\ exc' = "ReadError"
    /\ conn' = "closed"
    /\ YieldItem(JStr(GenericErrorText), "l120")
    /\ UNCHANGED front
    /\ UNCHANGED <<ui, model_sel, rpc, rexc, args, chat_history, buffer,
                   resp, posted, yields>>

AtItem == rpc = "next" /\ spc \in {"l81", "l111", "l120"}

\* lines 154-156 on a str item
ConsumeItem ==
    /\ AtItem /\ token.k = "str"
    /\ buffer' = buffer \o token.s
    /\ chat_history' = SetLastContent(chat_history, buffer')
    /\ YieldToUI(chat_history')
    /\ rpc' = "l156"
    /\ UNCHANGED front
    /\ UNCHANGED <<model_sel, rexc, args, spc, exc, resp, conn, token, posted, items>>

\* line 154 on an item that is not a str: `buffer += token` raises TypeError
\* to Gradio.  The traceback keeps respond's frame, and so the generator
\* suspended at line 111, until Gradio is done with the exception.
ConsumeRaises ==
    /\ AtItem /\ token.k # "str"
    /\ rpc' = "raised" /\ rexc' = "TypeError"
    /\ UNCHANGED front
    /\ UNCHANGED <<ui, model_sel, args, chat_history, buffer, spc, exc, resp,
                   conn, token, posted, items, yields>>

\* respond is resumed at line 156 and asks for the next item: stream_chat
\* goes on with its loop
ResumeLoop ==
    /\ rpc = "l156" /\ spc = "l111"
    /\ rpc' = "next"
    /\ spc' = "l98"
    /\ UNCHANGED front
    /\ UNCHANGED <<ui, model_sel, rexc, args, chat_history, buffer, exc, resp,
                   conn, token, posted, items, yields>>

\* the end of the stream followed by a step that rewrites the last message
ResumeReturn_Rewrite ==
    /\ rpc = "l156" /\ spc \in {"l81", "l120"}
    /\ spc' = "returned"
    /\ rpc' = "done"
    /\ chat_history' = SetLastContent(chat_history, << >>)
    /\ UNCHANGED front
    /\ UNCHANGED <<ui, model_sel, rexc, args, buffer, exc, resp,
                   conn, token, posted, items, yields>>

\* ... or returns after its warning (line 82) or its error item (line 120)
ResumeReturn ==
    /\ rpc = "l156" /\ spc \in {"l81", "l120"}
    /\ spc' = "returned"
    /\ rpc' = "done"
    /\ UNCHANGED front
    /\ UNCHANGED <<ui, model_sel, rexc, args, chat_history, buffer, exc, resp,
                   conn, token, posted, items, yields>>

\* Gradio stops pulling from respond (the client went away, the event was
\* cancelled): both generators stay suspended where they are
Abandon ==
    /\ rpc \in {"l150", "l156"}
    /\ rpc' = "abandoned"
    /\ UNCHANGED front
    /\ UNCHANGED <<ui, model_sel, rexc, args, chat_history, buffer, spc, exc, resp,
                   conn, token, posted, items, yields>>

Suspended == spc \in {"created", "l81", "l111", "l120"}

\* GeneratorExit without the release of the response
Finalize_Leak ==
    /\ rpc \in {"abandoned", "raised"} /\ Suspended
    /\ spc' = "closed"
    /\ UNCHANGED front
    /\ UNCHANGED <<ui, model_sel, rpc, rexc, args, chat_history, buffer, exc, resp,
                   conn, token, posted, items, yields>>

\* the generators nobody pulls from any more are closed or collected:
\* GeneratorExit is raised at the yield where stream_chat is suspended; no
\* handler of lines 112-118 catches it, and at line 111 it leaves the with
\* block, which closes the response
Finalize ==
    /\ rpc \in {"abandoned", "raised"} /\ Suspended
    /\ spc' = "closed"
    /\ conn' = IF conn = "open" THEN "closed" ELSE conn
    /\ UNCHANGED front
    /\ UNCHANGED <<ui, model_sel, rpc, rexc, args, chat_history, buffer, exc, resp,
                   token, posted, items, yields>>

\* what the handler of clear_btn.click returns for [chatbot, msg], with the
\* textbox left as it is
ClearOutputs_KeepInput == [chatbot |-> << >>, msg |-> msg]

\* line 217: lambda: ([], "")
ClearOutputs == [chatbot |-> << >>, msg |-> << >>]

\* clear_btn.click, queue=False: it runs at once, whatever else is running
ClearChat ==
    /\ chatbot' = ClearOutputs.chatbot
    /\ msg' = ClearOutputs.msg
    /\ UNCHANGED front
    /\ UNCHANGED <<model_sel, rpc, rexc, args, chat_history, buffer, spc, exc, resp,
                   conn, token, posted, items, yields>>

\* demo.load / refresh_btn.click when fetch_models returns: the update goes
\* to model_sel
Refresh ==
    \E r \in Responses :
        LET f == fetch_models(r)
            u == refresh_dropdown(f) IN
        /\ f.exc = "none"
        /\ fresp' = r /\ fexc' = "none"
        /\ fetched' = [choices |-> f.choices, default |-> f.default]
        /\ dd_choices' = u.choices /\ dd_interactive' = u.interactive
        /\ model_sel' = u.value
        /\ UNCHANGED <<ui, rpc, rexc, args, chat_history, buffer, spc, exc, resp,
                       conn, token, posted, items, yields>>

\* ... and when fetch_models raises: Gradio reports the error and the
\* dropdown stays as it was
RefreshRaises ==
    \E r \in Responses :
        LET f == fetch_models(r) IN
        /\ f.exc # "none"
        /\ fresp' = r /\ fexc' = f.exc
        /\ UNCHANGED <<dd_choices, dd_interactive, fetched, model_sel>>
        /\ UNCHANGED <<ui, rpc, rexc, args, chat_history, buffer, spc, exc, resp,
                       conn, token, posted, items, yields>>

Next ==
    \/ Abandon
    \/ Finalize
    \/ ClearChat
    \/ Submit
    \/ StartNoModel
    \/ PostConnectFail
    \/ PostHttpError
    \/ PostOk
    \/ LineSkipped
    \/ LineDone
    \/ LineToken
    \/ LineRaises
    \/ EndOfBody
    \/ DropConnection
    \/ ConsumeItem
    \/ ConsumeRaises
    \/ ResumeLoop
    \/ ResumeReturn

Spec == Init /\ [][Next]_vars

\* The page from its construction (lines 191-208), the discovery of the
\* models and the turns of a backend whose chat endpoint fails.
PageInit ==
    /\ chatbot = << >>
    /\ msg \in Questions
    /\ model_sel = None /\ dd_choices = << >> /\ dd_interactive = TRUE
    /\ fresp = NoResponse /\ fexc = "none"
    /\ fetched = [choices |-> << >>, default |-> JNull]
    /\ rpc = "idle" /\ rexc = "none"
    /\ message = << >> /\ model_choice = None
    /\ chat_history = << >> /\ buffer = << >>
    /\ spc = "none" /\ exc = "none"
    /\ status = 0 /\ lines = << >> /\ pos = 0
    /\ conn = "none"
    /\ token = JNull
    /\ posted = << >> /\ items = << >> /\ yields = << >>

PageNext ==
    \/ Refresh
    \/ RefreshRaises
    \/ Submit
    \/ StartNoModel
    \/ PostConnectFail
    \/ ConsumeItem
    \/ ResumeReturn

PageSpec == PageInit /\ [][PageNext]_vars

-----------------------------------------------------------------------------
(* The vocabulary of the properties: what the protocol calls a line        *)

IsDataLine(l) == l.pre = DataPrefix
IsDoneLine(l) == IsDataLine(l) /\ l.body = Raw("[DONE]")
IsBadJsonLine(l) == IsDataLine(l) /\ l.body.k = "raw" /\ l.body.t # "[DONE]"

\* the payload has the shape {choices: [{delta: {...}}, ...]}
WellShaped(v) ==
    /\ v.k = "obj"
    /\ HasKey(v.o, "choices")
    /\ LET c == Lookup(v.o, "choices") IN
       /\ c.k = "arr"
       /\ c.xs # << >>
       /\ c.xs[1].k = "obj"
       /\ HasKey(c.xs[1].o, "delta")
       /\ Lookup(c.xs[1].o, "delta").k = "obj"

\* a data line whose payload is JSON of another shape
IsShapelessLine(l) ==
    IsDataLine(l) /\ l.body.k = "json" /\ ~WellShaped(l.body.v)

\* choices[0].delta.content of a line, JNull when the line has none
ContentOf(l) ==
    IF IsDataLine(l) /\ l.body.k = "json" /\ WellShaped(l.body.v)
    THEN LET d == Lookup(Lookup(l.body.v.o, "choices").xs[1].o, "delta") IN
         IF HasKey(d.o, "content") THEN Lookup(d.o, "content") ELSE JNull
    ELSE JNull

\* the line carries a content that is present and not empty
IsTokenLine(l) ==
    LET c == ContentOf(l) IN c.k # "null" /\ (c.k = "str" => c.s # << >>)

\* the lines before the first `data: [DONE]`
BeforeDone(body) ==
    LET D == {i \in 1..Len(body) : IsDoneLine(body[i])} IN
    IF D = {} THEN body
    ELSE SubSeq(body, 1, (CHOOSE i \in D : \A j \in D : i <= j) - 1)

\* the contents of the token lines of a sequence of lines, in order
TokensOf(ls) ==
    LET t == SelectSeq(ls, IsTokenLine) IN [i \in 1..Len(t) |-> ContentOf(t[i])]

IsPrefix(a, b) == Len(a) <= Len(b) /\ a = SubSeq(b, 1, Len(a))

IsErrorItem(item) ==
    item.k = "str" /\ (item.s = GenericErrorText \/ \E c \in ErrorStatuses : item.s = HttpErrorText(c))

\* stream_chat is over: it returned, raised or was closed
StreamOver == spc \in {"returned", "raised", "closed"}

-----------------------------------------------------------------------------
(* C1 *)

\* C1: for every response body delivered in full with a 2xx status,
\* stream_chat yields exactly the contents of the token lines before the first
\* `data: [DONE]`, in order, and nothing else.
C1_ExactTokens ==
    (spc = "returned" /\ status = 200 /\ exc # "ReadError")
        => items = TokensOf(BeforeDone(lines))

-----------------------------------------------------------------------------
(* C2 *)

\* C2: the `messages` of the chat-completions POST are the conversation as it
\* stood when respond was called followed by one user message holding the
\* question (yields[1] is that conversation plus the two messages of the turn).
C2_RequestIsHistoryPlusQuestion ==
    \A i \in 1..Len(posted) :
        posted[i] = SubSeq(yields[1], 1, Len(yields[1]) - 2) \o <<Msg("user", message)>>

-----------------------------------------------------------------------------
(* C3 *)

\* C3: the step that starts a turn yields the input conversation extended by
\* user(question) and assistant(""), and leaves stream_chat unstarted: no
\* request issued, no item produced.
C3_FirstYield ==
    [][ (rpc = "idle" /\ rpc' # "idle")
          => /\ yields' = << chatbot \o <<Msg("user", msg), Msg("assistant", << >>)>> >>
             /\ chatbot' = yields'[1]
             /\ rpc' = "l150"
             /\ spc' = "created"
             /\ posted' = << >> /\ items' = << >> /\ conn' = "none" ]_vars

\* the first yield of a turn on a non-empty conversation, nothing sent yet
C3_Witness ==
    /\ rpc = "l150" /\ Len(yields) = 1 /\ Len(yields[1]) = 4
    /\ posted = << >> /\ model_choice # None

-----------------------------------------------------------------------------
(* C4 *)

\* C4: whenever respond is suspended or over it has yielded once more than
\* stream_chat has produced items, and its k+1-st yield ends in an assistant
\* message holding the first k items concatenated.
C4_OneYieldPerItem ==
    rpc \in {"l150", "l156", "done", "raised"}
        => /\ Len(yields) = 1 + Len(items)
           /\ \A k \in 1..Len(items) :
                 /\ items[k].k = "str"
                 /\ yields[k + 1][Len(yields[k + 1])].content
                      = yields[k][Len(yields[k])].content \o items[k].s

-----------------------------------------------------------------------------
(* C5 *)

\* C5: in a turn without a model stream_chat yields nothing but the warning,
\* exactly once before it ends, and no request is sent and no connection made.
C5_NoModelWarning ==
    (rpc # "idle" /\ model_choice = None)
        => /\ posted = << >> /\ conn = "none" /\ status = 0
           /\ IsPrefix(items, <<JStr(WarnText)>>)
           /\ (spc \in {"l81", "returned"} => items = <<JStr(WarnText)>>)
           /\ spc \in {"created", "l81", "returned", "closed"}

\* a finished turn without a model on a non-empty conversation
C5_Witness ==
    /\ model_choice = None /\ spc = "returned" /\ rpc = "done"
    /\ items = <<JStr(WarnText)>> /\ Len(chatbot) = 4

-----------------------------------------------------------------------------
(* C6 *)

\* C6: once a `data: [DONE]` line has been read it is the last line read, the
\* generator has returned without an exception, the connection is closed and
\* the items are the tokens of the lines before it: no error item among them.
C6_DoneEndsStream ==
    \A i \in 1..pos :
        IsDoneLine(lines[i])
            => /\ pos = i
               /\ spc = "returned" /\ rpc = "done"
               /\ exc = "none" /\ rexc = "none"
               /\ conn = "closed"
               /\ items = TokensOf(SubSeq(lines, 1, i - 1))
               /\ \A k \in 1..Len(items) : ~IsErrorItem(items[k])

\* [DONE] was read after a token and with a token line still unread
C6_Witness ==
    /\ pos = 2 /\ Len(lines) = 3
    /\ IsDoneLine(lines[2]) /\ IsTokenLine(lines[1]) /\ IsTokenLine(lines[3])
    /\ spc = "returned"

-----------------------------------------------------------------------------
(* C7 *)

\* C7: reading a data line that is not valid JSON yields nothing, raises
\* nothing and leaves the loop running on an open connection; and whenever
\* such a line has been read, the items yielded so far are the contents of
\* the token lines read so far, in order, followed by at most one item.
C7_BadJsonSkipped ==
    [][ /\ (Reading /\ pos < Len(lines) /\ IsBadJsonLine(NextLine) /\ pos' = pos + 1)
           => (items' = items /\ spc' = "l98" /\ rpc' = "next"
               /\ exc' = "none" /\ conn' = "open")
        /\ (\E i \in 1..pos' : IsBadJsonLine(lines'[i]))
           => /\ IsPrefix(TokensOf(SubSeq(lines', 1, pos')), items')
              /\ Len(items') <= Len(TokensOf(SubSeq(lines', 1, pos'))) + 1
      ]_vars

\* an invalid line between two token lines, both tokens yielded
C7_Witness ==
    /\ Len(lines) = 3 /\ pos = 3
    /\ IsTokenLine(lines[1]) /\ IsBadJsonLine(lines[2]) /\ IsTokenLine(lines[3])
    /\ items = <<ContentOf(lines[1]), ContentOf(lines[3])>>
    /\ spc = "returned" /\ exc = "none"

-----------------------------------------------------------------------------
(* C8 *)

\* C8: reading a data line whose payload is JSON of another shape than
\* {choices: [{delta: {...}}]} yields nothing, raises nothing and leaves the
\* loop running.
C8_ShapelessSkipped ==
    [][ (Reading /\ pos < Len(lines) /\ IsShapelessLine(NextLine) /\ pos' = pos + 1)
           => (items' = items /\ spc' = "l98" /\ rpc' = "next"
               /\ exc' = "none" /\ conn' = "open") ]_vars

-----------------------------------------------------------------------------
(* C9 *)

\* C9: after an error status stream_chat has yielded exactly one item, the
\* error text naming the status code, has read no line and raised nothing.
C9_HttpErrorItem ==
    status \in ErrorStatuses
        => /\ items = <<JStr(HttpErrorText(status))>>
           /\ pos = 0
           /\ spc \in {"l117", "returned"}

-----------------------------------------------------------------------------
(* C10 *)

\* C10: stream_chat never raises to its consumer; a failure other than an
\* error status has put exactly one generic error item after the tokens, and
\* an error item is always the last item.
C10_NoExceptionEscapes ==
    /\ spc # "raised"
    /\ (exc \in {"ConnectError", "ReadError", "AttributeError", "TypeError"})
          => /\ items # << >>
             /\ items[Len(items)] = JStr(GenericErrorText)
             /\ spc \in {"l120", "returned"}
    /\ \A k \in 1..Len(items) : IsErrorItem(items[k]) => k = Len(items)

-----------------------------------------------------------------------------
(* C11 *)

\* C11: respond never raises, and every conversation it yields, like the
\* conversation it is left with, is the first yield with a string as the
\* content of its last message: two messages more than at the start, ending
\* in user(question) and an assistant message.
C11_RespondNeverRaises ==
    /\ rpc # "raised" /\ rexc = "none"
    /\ \A k \in 1..Len(yields) :
          /\ Len(yields[k]) = Len(yields[1])
          /\ yields[k][Len(yields[k]) - 1] = Msg("user", message)
          /\ yields[k][Len(yields[k])].role = "assistant"
    /\ (rpc # "idle" => Len(chat_history) = Len(yields[1]))

-----------------------------------------------------------------------------
(* C12 *)

\* the `data` field of a discovery response answered with 200 and a JSON
\* object, JNull otherwise
DataOf(r) ==
    IF r.net = "ok" /\ r.status = 200 /\ r.body.k = "json" /\ r.body.v.k = "obj"
       /\ HasKey(r.body.v.o, "data")
    THEN Lookup(r.body.v.o, "data") ELSE JNull

\* the response is a success whose `data` is a sequence of objects
IsModelList(r) ==
    DataOf(r).k = "arr" /\ \A i \in 1..Len(DataOf(r).xs) : DataOf(r).xs[i].k = "obj"

\* the ids of the objects of a list that have one, in the order of the list
IdsOf(xs) ==
    LET w == SelectSeq(xs, LAMBDA e : HasKey(e.o, "id")) IN
    [i \in 1..Len(w) |-> Lookup(w[i].o, "id")]

\* C12: after a successful discovery whose `data` is a sequence of objects
\* (with strings as ids), fetch_models has returned the ids of the objects
\* that have one, in the order received, with the first as the default, and
\* no default exactly when it returned no id.
C12_IdsInOrder ==
    IsModelList(fresp)
        => /\ fexc = "none"
           /\ fetched.choices = IdsOf(DataOf(fresp).xs)
           /\ (fetched.choices # << >> => fetched.default = fetched.choices[1])
           /\ (fetched.default = JNull <=> fetched.choices = << >>)

\* two models received in an order that is not the sorted one
C12_Witness ==
    /\ IsModelList(fresp)
    /\ DataOf(fresp).xs = <<ModelObj("model-b"), ModelObj("model-a")>>
    /\ fetched.choices = <<JStr(<<"model-b">>), JStr(<<"model-a">>)>>
    /\ fetched.default = JStr(<<"model-b">>)

-----------------------------------------------------------------------------
(* C13 *)

\* C13: refresh_dropdown never sees fetch_models raise, and after a discovery
\* that failed (network error, error status, malformed body) fetch_models has
\* returned an empty sequence and no default.
C13_FetchNeverRaises ==
    /\ fexc = "none"
    /\ (fresp # NoResponse /\ ~IsModelList(fresp))
          => fetched = [choices |-> << >>, default |-> JNull]

-----------------------------------------------------------------------------
(* C14 *)

\* C14: whenever the token sequence is finished or abandoned, its connection
\* is not open.
C14_NeverOpenWhenAbandoned ==
    (StreamOver \/ rpc \in {"done", "abandoned"}) => conn # "open"

\* C14 (amended): the connection is open only while stream_chat is inside
\* its with block, reading or suspended at line 111; once the generator has
\* left the block, returned, raised or been closed, the connection is
\* closed.  An abandoned generator keeps it open until it is closed.
C14_ReleasedOnExit ==
    /\ conn = "open" => spc \in {"l98", "l111"}
    /\ (spc \in {"l120", "returned", "raised", "closed"} /\ status # 0)
          => conn = "closed"

\* an abandoned turn whose generator was closed while the response was open
C14_Witness ==
    /\ rpc = "abandoned" /\ spc = "closed" /\ conn = "closed"
    /\ status = 200 /\ items # << >> /\ pos < Len(lines) /\ exc = "none"

-----------------------------------------------------------------------------
(* C15 *)

\* C15: when the token sequence has ended respond is over, the conversation
\* is the one of its last yield, and from then on neither the conversation
\* nor the yields change.
C15_SealedAtEnd ==
    [][ /\ spc' \in {"returned", "raised"}
           => /\ rpc' \in {"done", "raised"}
              /\ chat_history' = yields'[Len(yields')]
        /\ rpc \in {"done", "raised"}
           => /\ chat_history' = chat_history
              /\ yields' = yields
              /\ rpc' = rpc ]_vars

\* a turn ended by a dropped connection after two tokens
C15_Witness ==
    /\ rpc = "done" /\ spc = "returned" /\ exc = "ReadError"
    /\ Len(yields) = 4
    /\ chat_history[Len(chat_history)].content = <<"a", "b">> \o GenericErrorText

-----------------------------------------------------------------------------
(* C16 *)

\* C16: at most one chat-completions POST is issued in a run, and after a
\* failure the generator is past its with block for good: nothing is read
\* and no connection is open.
C16_NoRetry ==
    /\ Len(posted) <= 1
    /\ exc # "none"
          => /\ spc \in {"l120", "returned", "raised", "closed"}
             /\ conn # "open"
             /\ Len(posted) = 1

\* a failed attempt that ended the sequence
C16_Witness ==
    /\ exc = "ConnectError" /\ spc = "returned" /\ rpc = "done"
    /\ Len(posted) = 1 /\ Len(items) = 1

-----------------------------------------------------------------------------
(* C17 *)

\* C17: a step that changes the conversation view or the input and is no
\* step of respond is the clear-chat action, and it leaves the conversation
\* empty and the input empty.
C17_ClearResets ==
    [][ (ui' # ui /\ UNCHANGED <<rpc, spc, yields, items, pos>>)
          => (chatbot' = << >> /\ msg' = << >>) ]_vars

\* cleared before any turn: the question typed at the start is gone
C17_Witness ==
    rpc = "idle" /\ chatbot = << >> /\ msg = << >> /\ dd_interactive

-----------------------------------------------------------------------------
(* C18 *)

\* C18: the first yield of a turn is the conversation of the call followed
\* by two messages; every later yield has the same length, the same messages
\* but the last, an assistant message as the last, and as its content an
\* extension of the content of the yield before.
C18_AppendOnly ==
    [][ /\ (rpc = "idle" /\ rpc' # "idle")
           => /\ Len(yields'[1]) = Len(chatbot) + 2
              /\ SubSeq(yields'[1], 1, Len(chatbot)) = chatbot
        /\ \A k \in 2..Len(yields') :
              /\ Len(yields'[k]) = Len(yields'[1])
              /\ \A i \in 1..(Len(yields'[1]) - 1) : yields'[k][i] = yields'[1][i]
              /\ yields'[k][Len(yields'[k])].role = yields'[1][Len(yields'[1])].role
              /\ IsPrefix(yields'[k - 1][Len(yields'[k - 1])].content,
                          yields'[k][Len(yields'[k])].content) ]_vars

\* three yields on a conversation that was not empty
C18_Witness ==
    /\ Len(yields) = 3 /\ Len(yields[1]) = 4
    /\ yields[3][4].content = <<"a", "b">>

-----------------------------------------------------------------------------
(* C19 *)

\* the last discovery failed or returned no model
NoModelFound(r) ==
    r # NoResponse /\ (~IsModelList(r) \/ IdsOf(DataOf(r).xs) = << >>)

\* C19: after a discovery that failed or returned no model the dropdown is
\* disabled with no value, and a message submitted then makes a turn
\* without a model, which is answered by the warning with no request sent;
\* after a discovery that returned models the dropdown is enabled with the
\* first of them selected.
C19_DropdownFollowsDiscovery ==
    [][ /\ NoModelFound(fresp')
           => (~dd_interactive' /\ model_sel' = None)
        /\ (fresp' # NoResponse /\ ~NoModelFound(fresp'))
           => (dd_interactive' /\ model_sel' = IdText(IdsOf(DataOf(fresp').xs)[1]))
        /\ (rpc = "idle" /\ rpc' # "idle" /\ NoModelFound(fresp))
           => model_choice' = None
        /\ (rpc' # "idle" /\ model_choice' = None)
           => (posted' = << >> /\ IsPrefix(items', <<JStr(WarnText)>>)) ]_vars

-----------------------------------------------------------------------------
(* C20 *)

\* C20: once cleared during a turn the conversation view stays empty: no
\* step but a submit makes it non-empty again.
C20_StaysCleared ==
    [][ (chatbot = << >> /\ rpc # "idle") => chatbot' = << >> ]_vars

====
